---- MODULE Spec2Model ----
(***************************************************************************)
(* Episode Bitwise Encoding (EBEncoding.py): a fixed-width bitmask with    *)
(* its declared width, the operations on it, and the vector operations     *)
(* built from them.  Integers are Python integers (unbounded); bit         *)
(* positions are counted 0 = most significant, width-1 = least significant *)
(* as get_bin_list lists them.                                             *)
(***************************************************************************)
EXTENDS Integers, Sequences, FiniteSets, TLC

VARIABLES e, op, arg, ret

vars == <<e, op, arg, ret>>

\* ---- bounds of the model ----
MaxWidth == 3
MaxExpand == 2
MaxGroup == 4
MaxTime == 3
MaxBits == 4
MaxVec == 3
MaxVecWidth == 2
MaxDim == 2

\* ---- Python integer operators ----

\* a | b on non-negative Python integers
RECURSIVE bit_or(_, _)
bit_or(a, b) ==
    IF a = 0 THEN b
    ELSE IF b = 0 THEN a
    ELSE (IF a % 2 = 1 \/ b % 2 = 1 THEN 1 ELSE 0) + 2 * bit_or(a \div 2, b \div 2)

\* a & b on Python integers; a negative operand is an infinite run of sign bits
RECURSIVE bit_and(_, _)
bit_and(a, b) ==
    IF a = 0 \/ b = 0 THEN 0
    ELSE IF a = -1 THEN b
    ELSE IF b = -1 THEN a
    ELSE (IF a % 2 = 1 /\ b % 2 = 1 THEN 1 ELSE 0) + 2 * bit_and(a \div 2, b \div 2)

\* ~a
bit_not(a) == -a - 1

\* a << n
shl(a, n) == a * 2^n

\* ---- exceptions and instances ----

NoExc == "none"

\* an EBEncoding instance: self.coding, self.bit_size
Obj(value, size) == [exc |-> NoExc, coding |-> value, bit_size |-> size]

\* a raised exception, in the shape of a result
Raise(kind) == [exc |-> kind, coding |-> 0, bit_size |-> 0]

\* ---- class EBEncoding ----

\* the constructor's test, with the boundary shifted by one
too_large_gt(value, size) == value > 2^size - 1

\* __init__: value >= 2**size - 1
too_large(value, size) == value >= 2^size - 1

\* __init__(value, size): the new instance, or the exception raised
EBEncoding(value, size) ==
    IF too_large(value, size) THEN Raise("InvalidWidth") ELSE Obj(value, size)

size(self) == self.bit_size

coding_value(self) == self.coding

\* bin(n) without its 0b prefix, as BitArray(bin(n)).bin holds it
RECURSIVE bin_digits(_)
bin_digits(n) ==
    IF n < 2 THEN <<IF n = 1 THEN "1" ELSE "0">>
    ELSE bin_digits(n \div 2) \o <<IF n % 2 = 1 THEN "1" ELSE "0">>

\* get_bin_list: the bits as characters, highest bit at position 0 (index 1 here)
get_bin_list(self) ==
    LET arr == bin_digits(self.coding)
    IN  [k \in 1..size(self) |->
            LET idx == k - 1
            IN  IF idx < size(self) - Len(arr) THEN "0"
                ELSE arr[Len(arr) - size(self) + idx + 1]]

\* barr[from:to].count("1")
count_ones(barr, from, to) ==
    Cardinality({k \in from..(to - 1) : k < Len(barr) /\ barr[k + 1] = "1"})

Min(a, b) == IF a <= b THEN a ELSE b

\* int(math.ceil(self.size() * 1.0 / bits2merge))
final_size_of(sz, bits2merge) ==
    IF sz % bits2merge = 0 THEN sz \div bits2merge ELSE sz \div bits2merge + 1

\* the merged bit placed from the low end instead of the high end
merged_bit_low(final_size, i) == shl(1, i)

\* 1 << (final_size - i - 1)
merged_bit(final_size, i) == shl(1, final_size - i - 1)

\* the loop of scale_down from index i on
RECURSIVE scale_down_loop(_, _, _, _, _)
scale_down_loop(barr, bits2merge, final_size, i, result_coding) ==
    IF i >= final_size THEN result_coding
    ELSE LET num_one == count_ones(barr, i * bits2merge,
                                   Min((i + 1) * bits2merge, Len(barr)))
             next == IF num_one > 0
                     THEN bit_or(result_coding, merged_bit(final_size, i))
                     ELSE result_coding
         IN  scale_down_loop(barr, bits2merge, final_size, i + 1, next)

\* scale_down(bits2merge): the instance after the call
scale_down(self, bits2merge) ==
    LET barr == get_bin_list(self)
        final_size == final_size_of(size(self), bits2merge)
    IN  Obj(scale_down_loop(barr, bits2merge, final_size, 0, 0), final_size)

\* the expansion step shifting toward the low end
expand_step_right(coding) == bit_or(coding, coding \div 2)

\* self.coding |= self.coding << 1
expand_step(coding) == bit_or(coding, shl(coding, 1))

\* the final masking left out
expand_mask_none(coding, x) == coding

\* self.coding &= ~x
expand_mask(coding, x) == bit_and(coding, bit_not(x))

\* the loop of post_expand from index i on: the pair (coding, x) it ends with
RECURSIVE post_expand_loop(_, _, _, _)
post_expand_loop(coding, x, i, num_bits) ==
    IF i >= num_bits THEN <<coding, x>>
    ELSE post_expand_loop(expand_step(coding), bit_or(x, shl(x, 1)), i + 1, num_bits)

\* post_expand(num_bits): the instance after the call
post_expand(self, num_bits) ==
    LET r == post_expand_loop(self.coding, shl(1, self.bit_size), 0, num_bits)
    IN  Obj(expand_mask(r[1], r[2]), self.bit_size)

\* clone()
clone(self) == EBEncoding(self.coding, size(self))

\* the test of eb_and, eb_or and op_consistence (operands here are always instances)
same_size(e1, e2) == size(e1) = size(e2)

eb_and(e1, e2) ==
    IF same_size(e1, e2)
    THEN EBEncoding(bit_and(coding_value(e1), coding_value(e2)), size(e1))
    ELSE Raise("IncompatibleOperands")

eb_or(e1, e2) ==
    IF same_size(e1, e2)
    THEN EBEncoding(bit_or(coding_value(e1), coding_value(e2)), size(e1))
    ELSE Raise("IncompatibleOperands")

\* op_consistence: the exception it raises, or none
op_consistence(e1, e2) ==
    IF ~same_size(e1, e2) THEN "IncompatibleOperands" ELSE NoExc

\* interaction(e1, e2, pe_bits)
interaction(e1, e2, pe_bits) ==
    IF coding_value(e1) = 0 \/ coding_value(e2) = 0 THEN EBEncoding(0, size(e1))
    ELSE IF op_consistence(e1, e2) # NoExc THEN Raise(op_consistence(e1, e2))
    ELSE LET c1 == clone(e1)
             c2 == clone(e2)
         IN  IF c1.exc # NoExc THEN c1
             ELSE IF c2.exc # NoExc THEN c2
             ELSE eb_and(post_expand(c1, pe_bits), post_expand(c2, pe_bits))

\* interval = 1 in get_encoding
interval == 1

\* the sample's bit placed from the low end instead of the high end
sample_bit_low(num_bits, i) == shl(1, i \div interval)

\* 1 << ((num_bits - 1 - i) / interval)
sample_bit(num_bits, i) == shl(1, (num_bits - 1 - i) \div interval)

\* the loop of get_encoding from index i on; is_in is False at the head of each
\* round because interval = 1 resets it in every round
RECURSIVE get_encoding_loop(_, _, _, _, _, _, _, _)
get_encoding_loop(start_time, end_time, cur, time_delta, num_bits, i, code, is_in) ==
    IF i >= num_bits THEN code
    ELSE LET in1 == IF start_time <= cur /\ cur <= end_time THEN TRUE ELSE is_in
             hit == i % interval = 0
             code1 == IF hit /\ in1 THEN bit_or(code, sample_bit(num_bits, i)) ELSE code
             in2 == IF hit THEN FALSE ELSE in1
         IN  get_encoding_loop(start_time, end_time, cur + time_delta, time_delta,
                               num_bits, i + 1, code1, in2)

\* get_encoding(start_time, end_time, coordinate_time, time_delta, num_bits)
get_encoding(start_time, end_time, coordinate_time, time_delta, num_bits) ==
    EBEncoding(get_encoding_loop(start_time, end_time, coordinate_time, time_delta,
                                 num_bits, 0, 0, FALSE), num_bits)

\* ---- class EBVector ----

\* EBVector(eb_list, coding_size) over a list
EBVector(eb_list, coding_size) == [ebvec |-> eb_list, coding_size |-> coding_size]

\* get_coding(index), index counted from 0
get_coding(self, index) == EBEncoding(self.ebvec[index + 1], self.coding_size)

get_size(self) == Len(self.ebvec)

\* merged |= eb_vec[j].coding_value() * t_dm_arr[i][j], for j from the given index on;
\* t_dm_arr[i][j] is dm[j][i], since t_dm_arr is dm transposed
RECURSIVE transform_row(_, _, _, _, _)
transform_row(eb_vec, dm, i, j, merged) ==
    IF j >= Len(eb_vec) THEN merged
    ELSE transform_row(eb_vec, dm, i, j + 1,
                       bit_or(merged, coding_value(eb_vec[j + 1]) * dm[j + 1][i + 1]))

\* the outer loop of transform from row i of the transposed matrix on
RECURSIVE transform_loop(_, _, _, _)
transform_loop(eb_vec, dm, i, ret_list) ==
    IF i >= Len(dm[1]) THEN [exc |-> NoExc, list |-> ret_list]
    ELSE LET r == EBEncoding(transform_row(eb_vec, dm, i, 0, 0), size(eb_vec[1]))
         IN  IF r.exc # NoExc THEN [exc |-> r.exc, list |-> <<>>]
             ELSE transform_loop(eb_vec, dm, i + 1, Append(ret_list, r))

\* transform(dm): the list returned, or the exception raised
transform(eb_vec, dm) == transform_loop(eb_vec, dm, 0, <<>>)

\* labels1 / labels2: None, or a list of labels
None == [is_none |-> TRUE, items |-> <<>>]

LabelList(items) == [is_none |-> FALSE, items |-> items]

\* the key of the pair (i, j)
pair_key(i, j, labels1, labels2) ==
    IF labels1.is_none \/ labels2.is_none
    THEN ToString(i) \o " " \o ToString(j)
    ELSE labels1.items[i + 1] \o " - " \o labels2.items[j + 1]

\* ret_list[key] = value
dict_set(d, key, value) ==
    [k \in DOMAIN d \cup {key} |-> IF k = key THEN value ELSE d[k]]

\* the two loops of intersection from the pair (i, j) on
RECURSIVE intersection_loop(_, _, _, _, _, _, _, _, _)
intersection_loop(self, other_vec, pe_bits, labels1, labels2, i, j, ret_list, nonzero_keys) ==
    IF i >= get_size(self)
    THEN [exc |-> NoExc, ret_list |-> ret_list, nonzero_keys |-> nonzero_keys]
    ELSE IF j >= get_size(self)
    THEN intersection_loop(self, other_vec, pe_bits, labels1, labels2,
                           i + 1, i + 2, ret_list, nonzero_keys)
    ELSE LET key == pair_key(i, j, labels1, labels2)
             c1 == get_coding(self, i)
             c2 == get_coding(other_vec, j)
             inter_coding == IF c1.exc # NoExc THEN c1
                             ELSE IF c2.exc # NoExc THEN c2
                             ELSE interaction(c1, c2, pe_bits)
         IN  IF inter_coding.exc # NoExc
             THEN [exc |-> inter_coding.exc, ret_list |-> <<>>, nonzero_keys |-> {}]
             ELSE IF coding_value(inter_coding) # 0
             THEN intersection_loop(self, other_vec, pe_bits, labels1, labels2, i, j + 1,
                                    dict_set(ret_list, key, coding_value(inter_coding)),
                                    nonzero_keys \cup {key})
             ELSE intersection_loop(self, other_vec, pe_bits, labels1, labels2, i, j + 1,
                                    ret_list, nonzero_keys)

\* intersection(other_vec, pe_bits, labels1, labels2)
intersection(self, other_vec, pe_bits, labels1, labels2) ==
    IF get_size(self) # get_size(other_vec)
    THEN [exc |-> "IncompatibleSize", ret_list |-> <<>>, nonzero_keys |-> {}]
    ELSE intersection_loop(self, other_vec, pe_bits, labels1, labels2, 0, 1, <<>>, {})

\* ---- inputs ----

Widths == 1..MaxWidth

Values == 0..(2^MaxWidth)

\* the instances the constructor accepts
ValidEncodings ==
    {EBEncoding(v, w) : v \in Values, w \in Widths} \ {Raise("InvalidWidth")}

Times == 0..MaxTime

Deltas == {-1, 1}

\* the codes a collection of the given width may hold
ValidCodes(w) == {v \in 0..(2^w) : EBEncoding(v, w).exc = NoExc}

Weights == {0, 1}

LabelNames == <<"a", "b", "c", "d">>

\* ---- the operations as steps ----

Init ==
    /\ e \in ValidEncodings
    /\ op = "construct"
    /\ arg = [value |-> e.coding, size |-> e.bit_size]
    /\ ret = e

Construct(v, w) ==
    /\ op' = "construct"
    /\ arg' = [value |-> v, size |-> w]
    /\ ret' = EBEncoding(v, w)
    /\ e' = IF ret'.exc = NoExc THEN ret' ELSE e

GetEncoding(s, t, c, d, n) ==
    /\ op' = "get_encoding"
    /\ arg' = [start_time |-> s, end_time |-> t, coordinate_time |-> c,
               time_delta |-> d, num_bits |-> n]
    /\ ret' = get_encoding(s, t, c, d, n)
    /\ e' = e

ScaleDown(g) ==
    /\ op' = "scale_down"
    /\ arg' = [self |-> e, bits2merge |-> g]
    /\ e' = scale_down(e, g)
    /\ ret' = e'

PostExpand(n) ==
    /\ op' = "post_expand"
    /\ arg' = [self |-> e, num_bits |-> n]
    /\ e' = post_expand(e, n)
    /\ ret' = e'

Clone ==
    /\ op' = "clone"
    /\ arg' = [self |-> e]
    /\ ret' = clone(e)
    /\ e' = e

EbAnd(b) ==
    /\ op' = "eb_and"
    /\ arg' = [e1 |-> e, e2 |-> b]
    /\ ret' = eb_and(e, b)
    /\ e' = e

EbOr(b) ==
    /\ op' = "eb_or"
    /\ arg' = [e1 |-> e, e2 |-> b]
    /\ ret' = eb_or(e, b)
    /\ e' = e

Interaction(b, k) ==
    /\ op' = "interaction"
    /\ arg' = [e1 |-> e, e2 |-> b, pe_bits |-> k]
    /\ ret' = interaction(e, b, k)
    /\ e' = e

\* transform(dm) on the collection and matrix of the pending call
Transform ==
    /\ op = "call" /\ arg.fn = "transform"
    /\ op' = "transform"
    /\ ret' = transform(arg.eb_vec, arg.dm)
    /\ UNCHANGED <<e, arg>>

\* intersection(other_vec, pe_bits, labels1, labels2) of the pending call
Intersection ==
    /\ op = "call" /\ arg.fn = "intersection"
    /\ op' = "intersection"
    /\ ret' = intersection(arg.self, arg.other_vec, arg.pe_bits, arg.labels1, arg.labels2)
    /\ UNCHANGED <<e, arg>>

Next ==
    \/ \E v \in Values, w \in Widths : Construct(v, w)
    \/ \E g \in 1..MaxGroup : ScaleDown(g)
    \/ \E n \in 0..MaxExpand : PostExpand(n)
    \/ Clone
    \/ \E b \in ValidEncodings : EbAnd(b)
    \/ \E b \in ValidEncodings : EbOr(b)
    \/ \E b \in ValidEncodings \cup {e}, k \in 0..MaxExpand : Interaction(b, k)

Spec == Init /\ [][Next]_vars

\* the static operations on their own start from one instance
StaticInit ==
    /\ e = EBEncoding(0, 1)
    /\ op = "construct"
    /\ arg = [value |-> 0, size |-> 1]
    /\ ret = e

\* the derivation of an encoding from a time window, over bounded instants
TimeNext ==
    \E s \in Times, t \in Times, c \in Times, d \in Deltas, n \in 1..MaxBits :
       GetEncoding(s, t, c, d, n)

TimeSpec == StaticInit /\ [][TimeNext]_vars

\* the vector operations: a call with its collections, of one width, is pending
VecInit ==
    /\ e = EBEncoding(0, 1)
    /\ op = "call"
    /\ ret = e
    /\ \/ \E w \in 1..MaxVecWidth, n \in 1..MaxVec, t \in 1..MaxDim :
             \E vec \in [1..n -> {Obj(v, w) : v \in ValidCodes(w)}],
                dm \in [1..n -> [1..t -> Weights]] :
                arg = [fn |-> "transform", eb_vec |-> vec, dm |-> dm]
       \/ \E w \in 1..MaxVecWidth, n1 \in 0..MaxVec, n2 \in 0..MaxVec, k \in 0..MaxExpand :
             \E l1 \in [1..n1 -> ValidCodes(w)], l2 \in [1..n2 -> ValidCodes(w)],
                lab \in {None, LabelList(LabelNames)} :
                arg = [fn |-> "intersection", self |-> EBVector(l1, w),
                       other_vec |-> EBVector(l2, w), pe_bits |-> k,
                       labels1 |-> lab, labels2 |-> lab]

VecNext == Transform \/ Intersection

VecSpec == VecInit /\ [][VecNext]_vars

\* ---- the claims ----

\* the bit of the w-bit value v at position p, 0 = most significant
BitAt(v, w, p) == (v \div 2^(w - 1 - p)) % 2 = 1

\* the constructor accepts the instance
Valid(x) == x.exc = NoExc /\ x.bit_size >= 1 /\ x.coding >= 0 /\ x.coding < 2^x.bit_size - 1

\* C1: constructing from (v, w) fails with InvalidWidth when v >= 2^w - 1, and
\* otherwise succeeds with the accessors returning exactly v and w.
C1_ConstructBoundary ==
    op = "construct" =>
        IF arg.value >= 2^arg.size - 1
        THEN ret.exc = "InvalidWidth"
        ELSE ret.exc = NoExc /\ coding_value(ret) = arg.value /\ size(ret) = arg.size

\* C1 witness: the all-ones value was offered and rejected
C1_Witness ==
    op = "construct" /\ arg.value = 2^arg.size - 1 /\ ret.exc = "InvalidWidth"

\* C2 (as stated): on two valid operands of one width eb_and and eb_or succeed, give
\* that width and the bitwise AND / OR of the values, and commute.
C2_ClosedCommutative ==
    (op \in {"eb_and", "eb_or"} /\ Valid(arg.e1) /\ Valid(arg.e2)
        /\ size(arg.e1) = size(arg.e2)) =>
        /\ ret.exc = NoExc
        /\ size(ret) = size(arg.e1)
        /\ coding_value(ret) = IF op = "eb_and"
                               THEN bit_and(arg.e1.coding, arg.e2.coding)
                               ELSE bit_or(arg.e1.coding, arg.e2.coding)
        /\ ret = IF op = "eb_and" THEN eb_and(arg.e2, arg.e1) ELSE eb_or(arg.e2, arg.e1)

\* sample i of the time window call lies in [start_time, end_time]
InWindow(i) ==
    /\ arg.start_time <= arg.coordinate_time + i * arg.time_delta
    /\ arg.coordinate_time + i * arg.time_delta <= arg.end_time

\* C3 (as stated): with start <= end the call returns an encoding of width num_bits
\* whose bit at position num_bits-1-i is set iff sample i lies in the window, so the
\* sample at the reference time is the least significant bit and
\* start = end = reference with 4 bits gives value 1.
C3_ReferenceLeastSignificant ==
    (op = "get_encoding" /\ arg.start_time <= arg.end_time) =>
        /\ ret.exc = NoExc
        /\ size(ret) = arg.num_bits
        /\ \A i \in 0..(arg.num_bits - 1) :
              BitAt(ret.coding, arg.num_bits, arg.num_bits - 1 - i) <=> InWindow(i)
        /\ (arg.start_time = arg.coordinate_time /\ arg.end_time = arg.coordinate_time
              /\ arg.num_bits = 4) => ret.coding = 1

\* C3 (amended): with start <= end the call fails with InvalidWidth when every sample
\* lies in the window, and otherwise returns an encoding of width num_bits whose bit
\* at position i (0 = most significant) is set iff sample i lies in the window; the
\* sample at the reference time is the most significant bit, and
\* start = end = reference with 4 bits gives value 8.
C3_ReferenceMostSignificant ==
    (op = "get_encoding" /\ arg.start_time <= arg.end_time) =>
        IF \A i \in 0..(arg.num_bits - 1) : InWindow(i)
        THEN ret.exc = "InvalidWidth"
        ELSE /\ ret.exc = NoExc
             /\ size(ret) = arg.num_bits
             /\ ret.coding >= 0 /\ ret.coding < 2^arg.num_bits
             /\ \A i \in 0..(arg.num_bits - 1) :
                   BitAt(ret.coding, arg.num_bits, i) <=> InWindow(i)
             /\ (arg.start_time = arg.coordinate_time
                   /\ arg.end_time = arg.coordinate_time
                   /\ arg.num_bits = 4) => ret.coding = 8

\* C3 witness: the window is exactly the reference instant, 4 bits, and the call
\* returned the value 8
C3_Witness ==
    /\ op = "get_encoding"
    /\ arg.start_time = arg.coordinate_time /\ arg.end_time = arg.coordinate_time
    /\ arg.num_bits = 4
    /\ ret.exc = NoExc /\ ret.coding = 8

\* C4 (as stated): for a valid e with a set bit, interaction(e, e, k) succeeds and
\* returns an encoding of e's width whose value is that of e after post_expand(k),
\* which is non-zero.
C4_SelfInteraction ==
    (op = "interaction" /\ arg.e1 = arg.e2 /\ Valid(arg.e1) /\ arg.e1.coding # 0) =>
        /\ ret.exc = NoExc
        /\ size(ret) = size(arg.e1)
        /\ coding_value(ret) = coding_value(post_expand(arg.e1, arg.pe_bits))
        /\ coding_value(ret) # 0

\* C5 (as stated): after post_expand(n) the bit at position p is set iff the
\* original had a set bit at some position q with p-n <= q <= p: set bits extend
\* toward the least significant end.
C5_TowardLeastSignificant ==
    op = "post_expand" =>
        \A p \in 0..(size(e) - 1) :
            BitAt(e.coding, size(e), p) <=>
                \E q \in 0..(size(e) - 1) :
                    /\ p - arg.num_bits <= q /\ q <= p
                    /\ BitAt(arg.self.coding, size(e), q)

\* C5 (amended): after post_expand(n) the bit at position p is set iff the original
\* had a set bit at some position q with p <= q <= p+n (q <= width-1): set bits
\* extend toward the most significant end, and what would pass position 0 is dropped.
C5_TowardMostSignificant ==
    op = "post_expand" =>
        /\ e.coding >= 0 /\ e.coding < 2^size(e)
        /\ \A p \in 0..(size(e) - 1) :
              BitAt(e.coding, size(e), p) <=>
                  \E q \in 0..(size(e) - 1) :
                      /\ p <= q /\ q <= p + arg.num_bits
                      /\ BitAt(arg.self.coding, size(e), q)

\* C5 witness: an expansion by n >= 1 set a bit that was clear, next to a set one
C5_Witness ==
    /\ op = "post_expand" /\ arg.num_bits >= 1
    /\ \E p \in 0..(size(e) - 2) :
          /\ ~BitAt(arg.self.coding, size(e), p)
          /\ BitAt(arg.self.coding, size(e), p + 1)
          /\ BitAt(e.coding, size(e), p)

\* C6: post_expand(n) leaves the width unchanged and the value below 2^width, so
\* the bit sequence still has width characters; post_expand(0) leaves the value
\* unchanged.
C6_PostExpandWithinWidth ==
    op = "post_expand" =>
        /\ size(e) = size(arg.self)
        /\ e.coding >= 0 /\ e.coding < 2^size(arg.self)
        /\ Len(get_bin_list(e)) = size(arg.self)
        /\ (arg.num_bits = 0 => e.coding = arg.self.coding)

\* C6 witness: an expansion by n >= 1 of an instance whose most significant bit is
\* set, so that a bit was shifted past the width and masked off
C6_Witness ==
    /\ op = "post_expand" /\ arg.num_bits >= 1
    /\ BitAt(arg.self.coding, size(arg.self), 0)
    /\ e.coding < 2^size(e)

\* C7: scale_down(g) sets the width to ceil(w / g) and sets output bit k iff one of
\* the source bits k*g .. min((k+1)*g, w)-1 was set; scale_down(1) changes nothing
\* and an all-zero encoding stays all-zero.
C7_ScaleDownMerges ==
    op = "scale_down" =>
        LET w == size(arg.self)
            g == arg.bits2merge
        IN  /\ size(e) = (w + g - 1) \div g
            /\ e.coding >= 0 /\ e.coding < 2^size(e)
            /\ \A k \in 0..(size(e) - 1) :
                  BitAt(e.coding, size(e), k) <=>
                      \E p \in (k * g)..(Min((k + 1) * g, w) - 1) :
                          BitAt(arg.self.coding, w, p)
            /\ (g = 1 => e = arg.self)
            /\ (arg.self.coding = 0 => e.coding = 0)

\* C7 witness: a merge by g >= 2 that does not divide the width, with a mixed result
C7_Witness ==
    /\ op = "scale_down" /\ arg.bits2merge >= 2
    /\ size(arg.self) % arg.bits2merge # 0
    /\ size(e) >= 2
    /\ e.coding # 0 /\ e.coding # 2^size(e) - 1

\* the pairs of an intersection without labels whose interaction is non-zero
NonZeroPairs ==
    {<<i, j>> \in (0..(get_size(arg.self) - 1)) \X (0..(get_size(arg.self) - 1)) :
        /\ i < j
        /\ coding_value(interaction(get_coding(arg.self, i), get_coding(arg.other_vec, j),
                                    arg.pe_bits)) # 0}

\* C8 (as stated): without labels, on two collections of one element count and width
\* with valid elements, intersection returns the mapping with the key "i j" exactly
\* for the pairs i < j whose interaction is non-zero, mapped to that interaction's
\* value, and the set of those keys; with differing counts it fails with
\* IncompatibleSize.
C8_Intersection ==
    (op = "intersection" /\ arg.labels1.is_none) =>
        IF get_size(arg.self) # get_size(arg.other_vec)
        THEN ret.exc = "IncompatibleSize"
        ELSE /\ ret.exc = NoExc
             /\ DOMAIN ret.ret_list =
                   {ToString(pr[1]) \o " " \o ToString(pr[2]) : pr \in NonZeroPairs}
             /\ \A pr \in NonZeroPairs :
                   ret.ret_list[ToString(pr[1]) \o " " \o ToString(pr[2])] =
                       coding_value(interaction(get_coding(arg.self, pr[1]),
                                                get_coding(arg.other_vec, pr[2]),
                                                arg.pe_bits))
             /\ ret.nonzero_keys = DOMAIN ret.ret_list

\* the bitwise OR over the sources from index j on, each times its weight in row i
RECURSIVE UnionOfRow(_, _)
UnionOfRow(i, j) ==
    IF j > Len(arg.eb_vec) THEN 0
    ELSE bit_or(arg.eb_vec[j].coding * arg.dm[j][i], UnionOfRow(i, j + 1))

\* C9 (as stated): transform on n valid encodings of one width with 0/1 weights
\* produces exactly target_dim encodings of that width, output i holding the OR of
\* the sources selected by row i.
C9_Transform ==
    op = "transform" =>
        /\ ret.exc = NoExc
        /\ Len(ret.list) = Len(arg.dm[1])
        /\ \A i \in 1..Len(arg.dm[1]) :
              /\ i \in DOMAIN ret.list
              /\ size(ret.list[i]) = size(arg.eb_vec[1])
              /\ coding_value(ret.list[i]) = UnionOfRow(i, 1)

\* C10 (as stated): after any sequence of scale_down and post_expand calls on a
\* validly constructed instance, the instance still has width >= 1 and
\* value < 2^width - 1, and clone() on it succeeds with the same (value, width).
C10_InvariantKept ==
    /\ size(e) >= 1
    /\ e.coding < 2^size(e) - 1
    /\ (op = "clone" => ret.exc = NoExc /\ ret = arg.self)

====
